---- MODULE Spec2Model ----
(***************************************************************************)
(* Model of pkg/agent/bakerapi.go: the AgentBaker image resolution API.    *)
(*                                                                         *)
(* State: the per-cloud legacy image catalog, the per-region SIG catalog   *)
(* (five family sub-catalogs), the three process-wide VHD cache            *)
(* inventories, and the record of the caller's current invocation.         *)
(***************************************************************************)
EXTENDS Naturals, FiniteSets, Sequences, TLC

VARIABLES
    AzureCloudToOSImageMap,        \* datamodel.AzureCloudToOSImageMap: cloud -> distro -> OSImageConfig
    sigCatalog,                    \* the SIGAzureEnvironmentSpecConfig of the resolvable environment
    FromManifest,                  \* cache.FromManifest
    FromComponentContainerImages,  \* cache.FromComponentContainerImages
    FromComponentDownloadedFiles,  \* cache.FromComponentDownloadedFiles
    call,                          \* the caller's invocation: Idle, or [op, args, out]
    threads                        \* concurrent callers: thread -> frame of its invocation

vars == <<AzureCloudToOSImageMap, sigCatalog, FromManifest,
          FromComponentContainerImages, FromComponentDownloadedFiles, call, threads>>

catalogs == <<AzureCloudToOSImageMap, sigCatalog>>
inventories == <<FromManifest, FromComponentContainerImages, FromComponentDownloadedFiles>>

-----------------------------------------------------------------------------
(* Bounds *)

\* A distro key is placed in at most this many family sub-catalogs.
MaxFamiliesPerDistro == 3

\* Number of distinct inventory objects a cache variable may be set to point to.
MaxInventoryObjects == 3

-----------------------------------------------------------------------------
(* Values *)

\* Go's nil (pointer, map or error).
NULL == [nil |-> TRUE]

Idle == [op |-> "idle"]

\* Callers that invoke the API concurrently, and the frame of one at rest.
Threads == {"t1", "t2"}
IdleFrame == [pc |-> "idle"]

\* Distros: one Linux, one Windows, and the three customized ones.
AKSUbuntuContainerd2204Gen2 == "aks-ubuntu-containerd-22.04-gen2"
AKSWindows2019Containerd == "aks-windows-2019-containerd"
CustomizedWindowsOSImage == "CustomizedWindowsOSImage"
CustomizedImage == "CustomizedImage"
CustomizedImageKata == "CustomizedImageKata"

Distros == {AKSUbuntuContainerd2204Gen2, AKSWindows2019Containerd,
            CustomizedWindowsOSImage, CustomizedImage, CustomizedImageKata}

\* Distros that the catalogs may hold an entry for.
CatalogDistros == {AKSUbuntuContainerd2204Gen2, AKSWindows2019Containerd}

\* Distro.IsWindowsDistro(): membership in the Windows distro list.
IsWindowsDistro(distro) == distro \in {AKSWindows2019Containerd, CustomizedWindowsOSImage}

\* AgentPoolProfile.IsWindows(): the OS flag of the agent pool profile.
OSTypes == {"Linux", "Windows"}
IsWindows(profile) == profile.OSType = "Windows"

\* string(distro): Distro is a string type, the conversion keeps the text.
DistroString(distro) == distro

\* Cloud names and regions given by callers.
KnownCloud == "AzurePublicCloud"
CloudNames == {KnownCloud, "UnknownCloud"}
ResolvableRegion == "eastus"
Regions == {ResolvableRegion, "unresolvable"}

\* The five family sub-catalogs (fields of SIGAzureEnvironmentSpecConfig).
Ubuntu == "SigUbuntuImageConfig"
CBLMariner == "SigCBLMarinerImageConfig"
AzureLinux == "SigAzureLinuxImageConfig"
Windows == "SigWindowsImageConfig"
UbuntuEdgeZone == "SigUbuntuEdgeZoneImageConfig"
Families == {Ubuntu, CBLMariner, AzureLinux, Windows, UbuntuEdgeZone}

Gallery(family) ==
    CASE family = Ubuntu -> "AKSUbuntu"
      [] family = CBLMariner -> "AKSCBLMariner"
      [] family = AzureLinux -> "AKSAzureLinux"
      [] family = Windows -> "AKSWindows"
      [] family = UbuntuEdgeZone -> "AKSUbuntuEdgeZone"

CatalogVersion(family) ==
    CASE family = Ubuntu -> "202401.01.0"
      [] family = CBLMariner -> "202401.02.0"
      [] family = AzureLinux -> "202401.03.0"
      [] family = Windows -> "17763.5329.240110"
      [] family = UbuntuEdgeZone -> "202401.05.0"

\* The SigImageConfig a family sub-catalog holds for a distro.
SigEntry(family, distro) ==
    [ResourceGroup |-> "resourcegroup", Gallery |-> Gallery(family),
     Definition |-> distro, Version |-> CatalogVersion(family)]

\* The OSImageConfig the legacy catalog holds for a distro.
LegacyEntry(distro) ==
    [ImageOffer |-> "aks", ImageSku |-> distro,
     ImagePublisher |-> "microsoft-aks", ImageVersion |-> "2021.11.06"]

\* Override mappings the toggles may return: distro string -> version.
OverrideVersion == "202402.99.0"
OverrideKeys == {DistroString(AKSUbuntuContainerd2204Gen2),
                 DistroString(AKSWindows2019Containerd),
                 DistroString(CustomizedImage)}
OverrideMaps == UNION {[K -> {OverrideVersion}] : K \in SUBSET OverrideKeys}

\* Inventory objects (identified by address) a cache variable may point to.
InventoryObjects == {[addr |-> n] : n \in 1..MaxInventoryObjects}

-----------------------------------------------------------------------------
(* Catalogs the program may be started with *)

SubCatalogs(family) == {[d \in K |-> SigEntry(family, d)] : K \in SUBSET CatalogDistros}

FamiliesOf(sigConfig, distro) == {f \in Families : distro \in DOMAIN sigConfig[f]}

SigCatalogs ==
    {c \in [SigUbuntuImageConfig : SubCatalogs(Ubuntu),
            SigCBLMarinerImageConfig : SubCatalogs(CBLMariner),
            SigAzureLinuxImageConfig : SubCatalogs(AzureLinux),
            SigWindowsImageConfig : SubCatalogs(Windows),
            SigUbuntuEdgeZoneImageConfig : SubCatalogs(UbuntuEdgeZone)] :
        \A d \in CatalogDistros : Cardinality(FamiliesOf(c, d)) <= MaxFamiliesPerDistro}

LegacyCatalogs ==
    {[cloud \in {KnownCloud} |-> [d \in K |-> LegacyEntry(d)]] : K \in SUBSET CatalogDistros}

-----------------------------------------------------------------------------
(* Results of an invocation *)

ErrorOf(message) == [error |-> message]
ErrUnknownCloud == ErrorOf("don't have settings for cloud")
ErrSIGResolution == ErrorOf("sig cloud spec config not resolved")
ErrNoImage == ErrorOf("can't find image for distro")
ErrNoSIGImage == ErrorOf("can't find SIG image config for distro")
ErrNoManifest == ErrorOf("cached versions from manifest are not available")
ErrNoContainerImages ==
    ErrorOf("cached versions from component container images are not available")
ErrNoDownloadedFiles ==
    ErrorOf("cached versions from component download files are not available")

\* What an invocation did: the value and error it returned (or that it
\* panicked), the collaborators it looked up, and the SIG catalog it left.
Outcome(ret, err, panicked, lookups, heap) ==
    [ret |-> ret, err |-> err, panic |-> panicked, lookups |-> lookups, sigCatalog |-> heap]

-----------------------------------------------------------------------------
(* Collaborators *)

\* datamodel.GetSIGAzureCloudSpecConfig(sigConfig, region)
GetSIGAzureCloudSpecConfig(region, heap) ==
    IF region = ResolvableRegion
    THEN [config |-> heap, err |-> NULL]
    ELSE [config |-> NULL, err |-> ErrSIGResolution]

\* templateGenerator.getNodeBootstrappingPayload / getNodeBootstrappingCmd
getNodeBootstrappingPayload(config) == <<"CustomData", config.Distro, config.OSType>>
getNodeBootstrappingCmd(config) == <<"CSE", config.Distro, config.OSType>>

-----------------------------------------------------------------------------
(* findSIGImageConfig *)

\* A pointer into the catalog itself: what taking the address of the stored
\* element, instead of a copy, would give.
AddressOfElement(sigConfig, family, distro) ==
    [target |-> family, value |-> sigConfig[family][distro]]

\* imageConfig, ok := sigConfig.<family>[distro]; return &imageConfig
\* The map value is copied into the local imageConfig, whose address is returned.
AddressOfCopy(sigConfig, family, distro) ==
    [target |-> "imageConfig", value |-> sigConfig[family][distro]]

findSIGImageConfigWindowsFirst(sigConfig, distro) ==
    IF distro \in DOMAIN sigConfig.SigWindowsImageConfig
    THEN AddressOfCopy(sigConfig, Windows, distro)
    ELSE IF distro \in DOMAIN sigConfig.SigUbuntuImageConfig
    THEN AddressOfCopy(sigConfig, Ubuntu, distro)
    ELSE IF distro \in DOMAIN sigConfig.SigCBLMarinerImageConfig
    THEN AddressOfCopy(sigConfig, CBLMariner, distro)
    ELSE IF distro \in DOMAIN sigConfig.SigAzureLinuxImageConfig
    THEN AddressOfCopy(sigConfig, AzureLinux, distro)
    ELSE IF distro \in DOMAIN sigConfig.SigUbuntuEdgeZoneImageConfig
    THEN AddressOfCopy(sigConfig, UbuntuEdgeZone, distro)
    ELSE NULL

findSIGImageConfig(sigConfig, distro) ==
    IF distro \in DOMAIN sigConfig.SigUbuntuImageConfig
    THEN AddressOfCopy(sigConfig, Ubuntu, distro)
    ELSE IF distro \in DOMAIN sigConfig.SigCBLMarinerImageConfig
    THEN AddressOfCopy(sigConfig, CBLMariner, distro)
    ELSE IF distro \in DOMAIN sigConfig.SigAzureLinuxImageConfig
    THEN AddressOfCopy(sigConfig, AzureLinux, distro)
    ELSE IF distro \in DOMAIN sigConfig.SigWindowsImageConfig
    THEN AddressOfCopy(sigConfig, Windows, distro)
    ELSE IF distro \in DOMAIN sigConfig.SigUbuntuEdgeZoneImageConfig
    THEN AddressOfCopy(sigConfig, UbuntuEdgeZone, distro)
    ELSE NULL

\* p.Version = version, through a non-nil pointer p obtained for distro:
\* the write lands in the object p points to.
StoreVersion(heap, p, distro, version) ==
    IF p.target = "imageConfig"
    THEN [heap |-> heap, p |-> [p EXCEPT !.value.Version = version]]
    ELSE [heap |-> [heap EXCEPT ![p.target][distro].Version = version],
          p |-> [p EXCEPT !.value.Version = version]]

\* The SigImageConfig a (possibly nil) pointer lets the caller read.
Deref(p) == IF p = NULL THEN NULL ELSE p.value

-----------------------------------------------------------------------------
(* GetNodeBootstrapping *)

IsCustomizedWithoutKata(distro) ==
    distro = CustomizedWindowsOSImage \/ distro = CustomizedImage

\* distro == CustomizedWindowsOSImage || distro == CustomizedImage || distro == CustomizedImageKata
IsCustomized(distro) ==
    distro = CustomizedWindowsOSImage \/ distro = CustomizedImage \/ distro = CustomizedImageKata

NoImageFoundEither(sigImageConfig, osImageConfig) ==
    sigImageConfig = NULL \/ osImageConfig = NULL

\* nodeBootstrapping.SigImageConfig == nil && nodeBootstrapping.OSImageConfig == nil
NoImageFound(sigImageConfig, osImageConfig) ==
    sigImageConfig = NULL /\ osImageConfig = NULL

\* A method that returned before its last part, and one that has its locals
\* in hand and its last part still to run.
Done(out) == [done |-> TRUE, out |-> out]
Pending(locals) == [done |-> FALSE, locals |-> locals]

\* Up to the not-found check: classification, legacy lookup, SIG environment
\* resolution and family scan. config: [Distro, OSType, CloudName, Location].
GetNodeBootstrappingResolve(config, osImageMap, heap) ==
    LET distro == config.Distro
        nodeBootstrapping ==
            [CustomData |-> getNodeBootstrappingPayload(config),
             CSE |-> getNodeBootstrappingCmd(config),
             OSImageConfig |-> NULL, SigImageConfig |-> NULL]
    IN  IF IsCustomized(distro)
        THEN Done(Outcome(nodeBootstrapping, NULL, FALSE, {}, heap))
        ELSE IF config.CloudName \notin DOMAIN osImageMap
        THEN Done(Outcome(NULL, ErrUnknownCloud, FALSE, {"legacy"}, heap))
        ELSE
        LET osImageConfigMap == osImageMap[config.CloudName]
            osImageConfig == IF distro \in DOMAIN osImageConfigMap
                             THEN osImageConfigMap[distro] ELSE NULL
            env == GetSIGAzureCloudSpecConfig(config.Location, heap)
        IN  IF env.err # NULL
            THEN Done(Outcome(NULL, env.err, FALSE, {"legacy", "sig"}, heap))
            ELSE
            LET p == findSIGImageConfig(env.config, distro)
            IN  IF NoImageFound(p, osImageConfig)
                THEN Done(Outcome(NULL, ErrNoImage, FALSE, {"legacy", "sig"}, heap))
                ELSE Pending([nodeBootstrapping |->
                                  [nodeBootstrapping EXCEPT !.OSImageConfig = osImageConfig],
                              SigImageConfig |-> p])

\* The version override and the return. imageVersionOverrides: what
\* toggles.GetLinuxNodeImageVersion returns for the configuration's entity.
GetNodeBootstrappingOverride(config, imageVersionOverrides, locals, heap) ==
    LET distro == config.Distro
        p == locals.SigImageConfig
        resolved == [locals.nodeBootstrapping EXCEPT !.SigImageConfig = Deref(p)]
    IN  IF IsWindows(config)
        THEN Outcome(resolved, NULL, FALSE, {"legacy", "sig"}, heap)
        ELSE IF DistroString(distro) \notin DOMAIN imageVersionOverrides
        THEN Outcome(resolved, NULL, FALSE, {"legacy", "sig", "override"}, heap)
        ELSE IF p = NULL
        \* nodeBootstrapping.SigImageConfig.Version = ... through a nil pointer
        THEN Outcome(NULL, NULL, TRUE, {"legacy", "sig", "override"}, heap)
        ELSE
        LET w == StoreVersion(heap, p, distro, imageVersionOverrides[DistroString(distro)])
        IN  Outcome([resolved EXCEPT !.SigImageConfig = Deref(w.p)], NULL, FALSE,
                    {"legacy", "sig", "override"}, w.heap)

GetNodeBootstrapping(config, imageVersionOverrides, osImageMap, heap) ==
    LET r == GetNodeBootstrappingResolve(config, osImageMap, heap)
    IN  IF r.done THEN r.out
        ELSE GetNodeBootstrappingOverride(config, imageVersionOverrides, r.locals, heap)

-----------------------------------------------------------------------------
(* GetLatestSigImageConfig *)

\* SIG environment resolution and family scan.
GetLatestSigImageConfigResolve(distro, region, heap) ==
    LET env == GetSIGAzureCloudSpecConfig(region, heap)
    IN  IF env.err # NULL
        THEN Done(Outcome(NULL, env.err, FALSE, {"sig"}, heap))
        ELSE
        LET sigImageConfig == findSIGImageConfig(env.config, distro)
        IN  IF sigImageConfig = NULL
            THEN Done(Outcome(NULL, ErrNoSIGImage, FALSE, {"sig"}, heap))
            ELSE Pending([sigImageConfig |-> sigImageConfig])

\* The version override and the return.
GetLatestSigImageConfigOverride(distro, imageVersionOverrides, locals, heap) ==
    LET sigImageConfig == locals.sigImageConfig
    IN  IF IsWindowsDistro(distro)
        THEN Outcome(Deref(sigImageConfig), NULL, FALSE, {"sig"}, heap)
        ELSE IF DistroString(distro) \notin DOMAIN imageVersionOverrides
        THEN Outcome(Deref(sigImageConfig), NULL, FALSE, {"sig", "override"}, heap)
        ELSE
        LET w == StoreVersion(heap, sigImageConfig, distro,
                              imageVersionOverrides[DistroString(distro)])
        IN  Outcome(Deref(w.p), NULL, FALSE, {"sig", "override"}, w.heap)

GetLatestSigImageConfig(distro, region, imageVersionOverrides, heap) ==
    LET r == GetLatestSigImageConfigResolve(distro, region, heap)
    IN  IF r.done THEN r.out
        ELSE GetLatestSigImageConfigOverride(distro, imageVersionOverrides, r.locals, heap)

-----------------------------------------------------------------------------
(* GetDistroSigImageConfig *)

MergeStepsScanOrder ==
    << [family |-> Ubuntu, override |-> TRUE],
       [family |-> CBLMariner, override |-> TRUE],
       [family |-> AzureLinux, override |-> TRUE],
       [family |-> Windows, override |-> FALSE],
       [family |-> UbuntuEdgeZone, override |-> TRUE] >>

MergeStepsOverrideWindows ==
    << [family |-> Windows, override |-> TRUE],
       [family |-> CBLMariner, override |-> TRUE],
       [family |-> AzureLinux, override |-> TRUE],
       [family |-> Ubuntu, override |-> TRUE],
       [family |-> UbuntuEdgeZone, override |-> TRUE] >>

\* The five range loops, in source order; override tells whether the loop
\* body consults linuxImageVersionOverrides.
MergeSteps ==
    << [family |-> Windows, override |-> FALSE],
       [family |-> CBLMariner, override |-> TRUE],
       [family |-> AzureLinux, override |-> TRUE],
       [family |-> Ubuntu, override |-> TRUE],
       [family |-> UbuntuEdgeZone, override |-> TRUE] >>

\* One range loop: every key of the sub-catalog is assigned in allDistros,
\* from the loop's own copy of the value.
MergeFamily(allDistros, subCatalog, override, linuxImageVersionOverrides) ==
    [distro \in (DOMAIN allDistros) \cup (DOMAIN subCatalog) |->
        IF distro \in DOMAIN subCatalog
        THEN IF override /\ DistroString(distro) \in DOMAIN linuxImageVersionOverrides
             THEN [subCatalog[distro] EXCEPT
                      !.Version = linuxImageVersionOverrides[DistroString(distro)]]
             ELSE subCatalog[distro]
        ELSE allDistros[distro]]

RECURSIVE MergeAll(_, _, _, _)
MergeAll(allDistros, steps, allAzureSigConfig, linuxImageVersionOverrides) ==
    IF steps = <<>> THEN allDistros
    ELSE MergeAll(MergeFamily(allDistros, allAzureSigConfig[Head(steps).family],
                              Head(steps).override, linuxImageVersionOverrides),
                  Tail(steps), allAzureSigConfig, linuxImageVersionOverrides)

\* SIG environment resolution and the override mapping.
GetDistroSigImageConfigResolve(region, heap) ==
    LET env == GetSIGAzureCloudSpecConfig(region, heap)
    IN  IF env.err # NULL
        THEN Done(Outcome(NULL, ErrorOf(<<"failed to get sig image config", env.err>>),
                          FALSE, {"sig"}, heap))
        ELSE Pending([resolved |-> TRUE])

\* The five range loops over the sub-catalog maps, and the return.
GetDistroSigImageConfigMerge(linuxImageVersionOverrides, heap) ==
    Outcome(MergeAll(<<>>, MergeSteps, heap, linuxImageVersionOverrides),
            NULL, FALSE, {"sig", "override"}, heap)

GetDistroSigImageConfig(region, linuxImageVersionOverrides, heap) ==
    LET r == GetDistroSigImageConfigResolve(region, heap)
    IN  IF r.done THEN r.out
        ELSE GetDistroSigImageConfigMerge(linuxImageVersionOverrides, heap)

-----------------------------------------------------------------------------
(* GetCachedVersionsOnVHD *)

GetCachedVersionsOnVHDUnchecked(manifest, containerImages, downloadedFiles) ==
    IF manifest = NULL
    THEN [ret |-> NULL, err |-> ErrNoManifest]
    ELSE IF containerImages = NULL
    THEN [ret |-> NULL, err |-> ErrNoContainerImages]
    ELSE [ret |-> [FromManifest |-> manifest,
                   FromComponentContainerImages |-> containerImages,
                   FromComponentDownloadedFiles |-> downloadedFiles],
          err |-> NULL]

GetCachedVersionsOnVHD(manifest, containerImages, downloadedFiles) ==
    IF manifest = NULL
    THEN [ret |-> NULL, err |-> ErrNoManifest]
    ELSE IF containerImages = NULL
    THEN [ret |-> NULL, err |-> ErrNoContainerImages]
    ELSE IF downloadedFiles = NULL
    THEN [ret |-> NULL, err |-> ErrNoDownloadedFiles]
    ELSE [ret |-> [FromManifest |-> manifest,
                   FromComponentContainerImages |-> containerImages,
                   FromComponentDownloadedFiles |-> downloadedFiles],
          err |-> NULL]

-----------------------------------------------------------------------------
(* Initial states *)

\* Catalogs as loaded, no inventory populated, no invocation in progress.
Init ==
    /\ AzureCloudToOSImageMap \in LegacyCatalogs
    /\ sigCatalog \in SigCatalogs
    /\ FromManifest = NULL
    /\ FromComponentContainerImages = NULL
    /\ FromComponentDownloadedFiles = NULL
    /\ call = Idle
    /\ threads = [t \in Threads |-> IdleFrame]

\* The catalog of a deployment whose families are disjoint.
DisjointSigCatalog ==
    [SigUbuntuImageConfig |->
        [d \in {AKSUbuntuContainerd2204Gen2} |-> SigEntry(Ubuntu, d)],
     SigCBLMarinerImageConfig |-> <<>>,
     SigAzureLinuxImageConfig |-> <<>>,
     SigWindowsImageConfig |->
        [d \in {AKSWindows2019Containerd} |-> SigEntry(Windows, d)],
     SigUbuntuEdgeZoneImageConfig |-> <<>>]

InitCache ==
    /\ AzureCloudToOSImageMap = [cloud \in {KnownCloud} |->
                                    [d \in CatalogDistros |-> LegacyEntry(d)]]
    /\ sigCatalog = DisjointSigCatalog
    /\ FromManifest = NULL
    /\ FromComponentContainerImages = NULL
    /\ FromComponentDownloadedFiles = NULL
    /\ call = Idle
    /\ threads = [t \in Threads |-> IdleFrame]

\* A catalog in which each distro key is placed in two families.
OverlappingSigCatalog ==
    [SigUbuntuImageConfig |->
        [d \in {AKSUbuntuContainerd2204Gen2} |-> SigEntry(Ubuntu, d)],
     SigCBLMarinerImageConfig |-> <<>>,
     SigAzureLinuxImageConfig |-> <<>>,
     SigWindowsImageConfig |->
        [d \in CatalogDistros |-> SigEntry(Windows, d)],
     SigUbuntuEdgeZoneImageConfig |->
        [d \in {AKSWindows2019Containerd} |-> SigEntry(UbuntuEdgeZone, d)]]

InitConcurrent ==
    /\ AzureCloudToOSImageMap = [cloud \in {KnownCloud} |->
                                    [d \in CatalogDistros |-> LegacyEntry(d)]]
    /\ sigCatalog \in {DisjointSigCatalog, OverlappingSigCatalog}
    /\ FromManifest = NULL
    /\ FromComponentContainerImages = NULL
    /\ FromComponentDownloadedFiles = NULL
    /\ call = Idle
    /\ threads = [t \in Threads |-> IdleFrame]

-----------------------------------------------------------------------------
(* Actions *)

Configurations ==
    [Distro : Distros, OSType : OSTypes, CloudName : CloudNames, Location : Regions]

CallGetNodeBootstrapping ==
    /\ call = Idle
    /\ \E config \in Configurations, overrides \in OverrideMaps :
          LET out == GetNodeBootstrapping(config, overrides, AzureCloudToOSImageMap, sigCatalog)
          IN  /\ call' = [op |-> "GetNodeBootstrapping",
                          args |-> [config |-> config, overrides |-> overrides],
                          out |-> out]
              /\ sigCatalog' = out.sigCatalog
    /\ UNCHANGED <<AzureCloudToOSImageMap, inventories, threads>>

CallGetLatestSigImageConfig ==
    /\ call = Idle
    /\ \E distro \in Distros, region \in Regions, overrides \in OverrideMaps :
          LET out == GetLatestSigImageConfig(distro, region, overrides, sigCatalog)
          IN  /\ call' = [op |-> "GetLatestSigImageConfig",
                          args |-> [distro |-> distro, region |-> region,
                                    overrides |-> overrides],
                          out |-> out]
              /\ sigCatalog' = out.sigCatalog
    /\ UNCHANGED <<AzureCloudToOSImageMap, inventories, threads>>

CallGetDistroSigImageConfig ==
    /\ call = Idle
    /\ \E region \in Regions, overrides \in OverrideMaps :
          LET out == GetDistroSigImageConfig(region, overrides, sigCatalog)
          IN  /\ call' = [op |-> "GetDistroSigImageConfig",
                          args |-> [region |-> region, overrides |-> overrides],
                          out |-> out]
              /\ sigCatalog' = out.sigCatalog
    /\ UNCHANGED <<AzureCloudToOSImageMap, inventories, threads>>

CallGetCachedVersionsOnVHD ==
    /\ call = Idle
    /\ call' = [op |-> "GetCachedVersionsOnVHD",
                args |-> [FromManifest |-> FromManifest,
                          FromComponentContainerImages |-> FromComponentContainerImages,
                          FromComponentDownloadedFiles |-> FromComponentDownloadedFiles],
                out |-> GetCachedVersionsOnVHD(FromManifest, FromComponentContainerImages,
                                               FromComponentDownloadedFiles)]
    /\ UNCHANGED <<catalogs, inventories, threads>>

\* The caller takes the result; the next invocation may start.
Return ==
    /\ call # Idle
    /\ call' = Idle
    /\ UNCHANGED <<catalogs, inventories, threads>>

\* Image-build initialization sets an inventory that is still unset.
PopulateFromManifest ==
    /\ FromManifest = NULL
    /\ \E object \in InventoryObjects : FromManifest' = object
    /\ UNCHANGED <<catalogs, FromComponentContainerImages, FromComponentDownloadedFiles, call, threads>>

PopulateFromComponentContainerImages ==
    /\ FromComponentContainerImages = NULL
    /\ \E object \in InventoryObjects : FromComponentContainerImages' = object
    /\ UNCHANGED <<catalogs, FromManifest, FromComponentDownloadedFiles, call, threads>>

PopulateFromComponentDownloadedFiles ==
    /\ FromComponentDownloadedFiles = NULL
    /\ \E object \in InventoryObjects : FromComponentDownloadedFiles' = object
    /\ UNCHANGED <<catalogs, FromManifest, FromComponentContainerImages, call, threads>>

Next ==
    \/ CallGetNodeBootstrapping
    \/ CallGetLatestSigImageConfig
    \/ CallGetDistroSigImageConfig
    \/ Return

Spec == Init /\ [][Next]_vars

NextCache ==
    \/ PopulateFromManifest
    \/ PopulateFromComponentContainerImages
    \/ PopulateFromComponentDownloadedFiles
    \/ CallGetCachedVersionsOnVHD
    \/ Return

SpecCache == InitCache /\ [][NextCache]_vars

-----------------------------------------------------------------------------
(* Concurrent callers: each invocation runs in two steps, the lookups and   *)
(* then the part that writes the version and returns; the steps of          *)
(* different threads interleave.                                            *)

ResolvedFrame(op, args, r) ==
    IF r.done
    THEN [pc |-> "returned", op |-> op, args |-> args, out |-> r.out]
    ELSE [pc |-> "resolved", op |-> op, args |-> args, locals |-> r.locals]

ReturnedFrame(frame, out) ==
    [pc |-> "returned", op |-> frame.op, args |-> frame.args, out |-> out]

BeginGetNodeBootstrapping(t) ==
    /\ threads[t].pc = "idle"
    /\ \E config \in Configurations, overrides \in OverrideMaps :
          threads' = [threads EXCEPT ![t] =
              ResolvedFrame("GetNodeBootstrapping",
                            [config |-> config, overrides |-> overrides],
                            GetNodeBootstrappingResolve(config, AzureCloudToOSImageMap,
                                                        sigCatalog))]
    /\ UNCHANGED <<catalogs, inventories, call>>

BeginGetLatestSigImageConfig(t) ==
    /\ threads[t].pc = "idle"
    /\ \E distro \in Distros, region \in Regions, overrides \in OverrideMaps :
          threads' = [threads EXCEPT ![t] =
              ResolvedFrame("GetLatestSigImageConfig",
                            [distro |-> distro, region |-> region, overrides |-> overrides],
                            GetLatestSigImageConfigResolve(distro, region, sigCatalog))]
    /\ UNCHANGED <<catalogs, inventories, call>>

BeginGetDistroSigImageConfig(t) ==
    /\ threads[t].pc = "idle"
    /\ \E region \in Regions, overrides \in OverrideMaps :
          threads' = [threads EXCEPT ![t] =
              ResolvedFrame("GetDistroSigImageConfig",
                            [region |-> region, overrides |-> overrides],
                            GetDistroSigImageConfigResolve(region, sigCatalog))]
    /\ UNCHANGED <<catalogs, inventories, call>>

FinishGetNodeBootstrapping(t) ==
    /\ threads[t].pc = "resolved"
    /\ threads[t].op = "GetNodeBootstrapping"
    /\ LET out == GetNodeBootstrappingOverride(threads[t].args.config,
                                               threads[t].args.overrides,
                                               threads[t].locals, sigCatalog)
       IN  /\ threads' = [threads EXCEPT ![t] = ReturnedFrame(threads[t], out)]
           /\ sigCatalog' = out.sigCatalog
    /\ UNCHANGED <<AzureCloudToOSImageMap, inventories, call>>

FinishGetLatestSigImageConfig(t) ==
    /\ threads[t].pc = "resolved"
    /\ threads[t].op = "GetLatestSigImageConfig"
    /\ LET out == GetLatestSigImageConfigOverride(threads[t].args.distro,
                                                  threads[t].args.overrides,
                                                  threads[t].locals, sigCatalog)
       IN  /\ threads' = [threads EXCEPT ![t] = ReturnedFrame(threads[t], out)]
           /\ sigCatalog' = out.sigCatalog
    /\ UNCHANGED <<AzureCloudToOSImageMap, inventories, call>>

FinishGetDistroSigImageConfig(t) ==
    /\ threads[t].pc = "resolved"
    /\ threads[t].op = "GetDistroSigImageConfig"
    /\ LET out == GetDistroSigImageConfigMerge(threads[t].args.overrides, sigCatalog)
       IN  /\ threads' = [threads EXCEPT ![t] = ReturnedFrame(threads[t], out)]
           /\ sigCatalog' = out.sigCatalog
    /\ UNCHANGED <<AzureCloudToOSImageMap, inventories, call>>

\* The thread takes its result and may invoke again.
ThreadReturn(t) ==
    /\ threads[t].pc = "returned"
    /\ threads' = [threads EXCEPT ![t] = IdleFrame]
    /\ UNCHANGED <<catalogs, inventories, call>>

NextConcurrent ==
    \E t \in Threads :
        \/ BeginGetNodeBootstrapping(t)
        \/ BeginGetLatestSigImageConfig(t)
        \/ BeginGetDistroSigImageConfig(t)
        \/ FinishGetNodeBootstrapping(t)
        \/ FinishGetLatestSigImageConfig(t)
        \/ FinishGetDistroSigImageConfig(t)
        \/ ThreadReturn(t)

SpecConcurrent == InitConcurrent /\ [][NextConcurrent]_vars

-----------------------------------------------------------------------------
(* Vocabulary of the properties *)

IsCall(op) == call.op = op

\* The order in which the family scan is specified to look.
ScanRank(family) ==
    CASE family = Ubuntu -> 1
      [] family = CBLMariner -> 2
      [] family = AzureLinux -> 3
      [] family = Windows -> 4
      [] family = UbuntuEdgeZone -> 5

\* The order in which GetDistroSigImageConfig merges the families.
MergeRank(family) ==
    CASE family = Windows -> 1
      [] family = CBLMariner -> 2
      [] family = AzureLinux -> 3
      [] family = Ubuntu -> 4
      [] family = UbuntuEdgeZone -> 5

FirstInScan(sigConfig, distro) ==
    CHOOSE f \in FamiliesOf(sigConfig, distro) :
        \A g \in FamiliesOf(sigConfig, distro) : ScanRank(f) <= ScanRank(g)

\* Two image configs name the same image: all fields but Version agree.
SameImage(a, b) ==
    /\ a.ResourceGroup = b.ResourceGroup
    /\ a.Gallery = b.Gallery
    /\ a.Definition = b.Definition

CustomizedDistros == {CustomizedWindowsOSImage, CustomizedImage, CustomizedImageKata}
WindowsDistros == {AKSWindows2019Containerd, CustomizedWindowsOSImage}

\* A GetNodeBootstrapping invocation that got past cloud and SIG resolution.
ResolvingBootstrap ==
    /\ IsCall("GetNodeBootstrapping")
    /\ call.args.config.Distro \notin CustomizedDistros
    /\ call.args.config.CloudName = KnownCloud
    /\ call.args.config.Location = ResolvableRegion

-----------------------------------------------------------------------------
(* C1: GetNodeBootstrapping never applies the version override for a       *)
(* Windows distro: whenever the distro is a Windows distro and the SIG     *)
(* lookup succeeded, the returned SigImageConfig is the catalog entry with *)
(* its catalog version, whatever the override mapping and the OS flag.     *)
C1_WindowsDistroNeverOverridden ==
    (/\ IsCall("GetNodeBootstrapping")
     /\ call.args.config.Distro \in WindowsDistros
     /\ call.out.ret # NULL
     /\ call.out.ret.SigImageConfig # NULL)
    => LET distro == call.args.config.Distro
       IN  call.out.ret.SigImageConfig.Version =
               CatalogVersion(FirstInScan(sigCatalog, distro))

(* C2: for a non-customized distro, a known cloud and a resolvable SIG     *)
(* environment, GetNodeBootstrapping returns an artifact and no error      *)
(* whenever the legacy catalog or some SIG family holds the distro, for    *)
(* every override mapping.                                                 *)
C2_PartialResolutionSucceeds ==
    (/\ ResolvingBootstrap
     /\ \/ call.args.config.Distro \in DOMAIN AzureCloudToOSImageMap[KnownCloud]
        \/ FamiliesOf(sigCatalog, call.args.config.Distro) # {})
    => /\ call.out.ret # NULL
       /\ call.out.err = NULL
       /\ ~call.out.panic

(* C3 as stated: when a distro key is in several family sub-catalogs,      *)
(* GetDistroSigImageConfig keeps the entry of the family that is latest in *)
(* the order Ubuntu, CBLMariner, AzureLinux, Windows, UbuntuEdgeZone.      *)
C3_LatestInScanOrderKept ==
    (IsCall("GetDistroSigImageConfig") /\ call.out.err = NULL)
    => \A distro \in DOMAIN call.out.ret :
          \A f \in FamiliesOf(sigCatalog, distro) :
             (\A g \in FamiliesOf(sigCatalog, distro) : ScanRank(g) <= ScanRank(f))
             => SameImage(call.out.ret[distro], SigEntry(f, distro))

(* C3 as amended: when a distro key is in several family sub-catalogs,     *)
(* GetDistroSigImageConfig keeps the entry of the family that is latest in *)
(* the order Windows, CBLMariner, AzureLinux, Ubuntu, UbuntuEdgeZone.      *)
C3_LatestInMergeOrderKept ==
    (IsCall("GetDistroSigImageConfig") /\ call.out.err = NULL)
    => \A distro \in DOMAIN call.out.ret :
          \A f \in FamiliesOf(sigCatalog, distro) :
             (\A g \in FamiliesOf(sigCatalog, distro) : MergeRank(g) <= MergeRank(f))
             => /\ SameImage(call.out.ret[distro], SigEntry(f, distro))
                /\ call.out.ret[distro].Version \in {CatalogVersion(f), OverrideVersion}

\* A full catalog was assembled with one distro in both the Ubuntu and the
\* Windows sub-catalog, where the two orders disagree.
C3_Witness ==
    /\ IsCall("GetDistroSigImageConfig")
    /\ call.out.err = NULL
    /\ \E distro \in CatalogDistros :
          /\ FamiliesOf(sigCatalog, distro) = {Ubuntu, Windows}
          /\ call.out.ret[distro].Gallery = Gallery(Ubuntu)

(* C4: for a customized distro GetNodeBootstrapping returns an artifact    *)
(* holding only payload and command, returns no error and performs no      *)
(* legacy, SIG or override lookup, for every cloud name, region and        *)
(* override mapping.                                                       *)
C4_CustomizedBypass ==
    (IsCall("GetNodeBootstrapping") /\ call.args.config.Distro \in CustomizedDistros)
    => /\ call.out.ret # NULL
       /\ call.out.ret.CustomData = getNodeBootstrappingPayload(call.args.config)
       /\ call.out.ret.CSE = getNodeBootstrappingCmd(call.args.config)
       /\ call.out.ret.OSImageConfig = NULL
       /\ call.out.ret.SigImageConfig = NULL
       /\ call.out.err = NULL
       /\ ~call.out.panic
       /\ call.out.lookups = {}

\* A customized distro resolved against an unknown cloud and an unresolvable
\* region, with an override present for its own key.
C4_Witness ==
    /\ IsCall("GetNodeBootstrapping")
    /\ call.args.config.Distro = CustomizedImageKata
    /\ call.args.config.CloudName # KnownCloud
    /\ call.args.config.Location # ResolvableRegion
    /\ DOMAIN call.args.overrides = OverrideKeys
    /\ call.out.ret # NULL

(* C5: for a non-Windows distro whose SIG lookup succeeds, the             *)
(* SigImageConfig returned by GetLatestSigImageConfig and by               *)
(* GetNodeBootstrapping is the catalog entry with Version replaced by the  *)
(* override value when the distro's key is in the override mapping, and    *)
(* the catalog entry itself when it is not.                                *)
C5_NonWindowsOverrideApplied ==
    LET Expected(distro, overrides) ==
            LET entry == SigEntry(FirstInScan(sigCatalog, distro), distro)
            IN  IF DistroString(distro) \in DOMAIN overrides
                THEN [entry EXCEPT !.Version = overrides[DistroString(distro)]]
                ELSE entry
    IN  /\ (/\ IsCall("GetLatestSigImageConfig")
            /\ call.args.distro \notin WindowsDistros
            /\ call.out.ret # NULL)
           => call.out.ret = Expected(call.args.distro, call.args.overrides)
        /\ (/\ IsCall("GetNodeBootstrapping")
            /\ call.args.config.Distro \notin WindowsDistros
            /\ call.out.ret # NULL
            /\ call.out.ret.SigImageConfig # NULL)
           => call.out.ret.SigImageConfig =
                 Expected(call.args.config.Distro, call.args.overrides)

(* C6: findSIGImageConfig returns the entry of the first family, in the    *)
(* order Ubuntu, CBLMariner, AzureLinux, Windows, UbuntuEdgeZone, that     *)
(* holds the distro, and no entry when no family holds it; seen directly   *)
(* and through GetLatestSigImageConfig called with no override.            *)
C6_FirstInScanOrderFound ==
    /\ \A distro \in Distros :
          IF FamiliesOf(sigCatalog, distro) = {}
          THEN findSIGImageConfig(sigCatalog, distro) = NULL
          ELSE /\ findSIGImageConfig(sigCatalog, distro) # NULL
               /\ Deref(findSIGImageConfig(sigCatalog, distro)) =
                     SigEntry(FirstInScan(sigCatalog, distro), distro)
    /\ (/\ IsCall("GetLatestSigImageConfig")
        /\ call.args.region = ResolvableRegion
        /\ call.args.overrides = <<>>)
       => IF FamiliesOf(sigCatalog, call.args.distro) = {}
          THEN call.out.ret = NULL
          ELSE call.out.ret =
                  SigEntry(FirstInScan(sigCatalog, call.args.distro), call.args.distro)

\* A lookup of a distro placed in the Windows and in the CBLMariner
\* sub-catalog returned the CBLMariner entry.
C6_Witness ==
    /\ IsCall("GetLatestSigImageConfig")
    /\ call.args.overrides = <<>>
    /\ FamiliesOf(sigCatalog, call.args.distro) = {CBLMariner, Windows}
    /\ call.out.ret = SigEntry(CBLMariner, call.args.distro)

(* C7: when the SIG environment resolves, GetDistroSigImageConfig returns  *)
(* a mapping whose keys are exactly the union of the keys of the five      *)
(* family sub-catalogs; an entry drawn from a non-Windows sub-catalog has  *)
(* the override value as Version when the distro's key is in the override  *)
(* mapping and the catalog version otherwise; an entry drawn from the      *)
(* Windows sub-catalog keeps its catalog version.                          *)
C7_FullCatalogAssembly ==
    (IsCall("GetDistroSigImageConfig") /\ call.args.region = ResolvableRegion)
    => /\ call.out.err = NULL
       /\ DOMAIN call.out.ret = UNION {DOMAIN sigCatalog[f] : f \in Families}
       /\ \A distro \in DOMAIN call.out.ret :
             /\ \E f \in FamiliesOf(sigCatalog, distro) :
                   SameImage(call.out.ret[distro], sigCatalog[f][distro])
             /\ \A f \in FamiliesOf(sigCatalog, distro) :
                   SameImage(call.out.ret[distro], sigCatalog[f][distro])
                   => call.out.ret[distro].Version =
                         IF f # Windows
                            /\ DistroString(distro) \in DOMAIN call.args.overrides
                         THEN call.args.overrides[DistroString(distro)]
                         ELSE CatalogVersion(f)

\* A full catalog assembled with overrides for every key holds an entry
\* drawn from the Windows sub-catalog and an overridden non-Windows entry.
C7_Witness ==
    /\ IsCall("GetDistroSigImageConfig")
    /\ call.out.err = NULL
    /\ DOMAIN call.args.overrides = OverrideKeys
    /\ \E d1, d2 \in DOMAIN call.out.ret :
          /\ call.out.ret[d1].Gallery = Gallery(Windows)
          /\ call.out.ret[d1].Version = CatalogVersion(Windows)
          /\ call.out.ret[d2].Gallery = Gallery(AzureLinux)
          /\ call.out.ret[d2].Version = OverrideVersion

(* C8: GetCachedVersionsOnVHD fails exactly when one of the three          *)
(* inventories is unset, with the error of the first unset one in the      *)
(* order manifest, container images, downloaded files, and no snapshot;    *)
(* with all three set it returns a snapshot whose fields are the three     *)
(* inventories themselves; and it changes no inventory.                    *)
C8_CacheSnapshot ==
    [][(call' # call /\ call'.op = "GetCachedVersionsOnVHD")
       => /\ inventories' = inventories
          /\ call'.args = [FromManifest |-> FromManifest,
                           FromComponentContainerImages |-> FromComponentContainerImages,
                           FromComponentDownloadedFiles |-> FromComponentDownloadedFiles]
          /\ (call'.out.err # NULL)
                <=> (NULL \in {FromManifest, FromComponentContainerImages,
                               FromComponentDownloadedFiles})
          /\ (FromManifest = NULL)
                => (call'.out.err = ErrNoManifest /\ call'.out.ret = NULL)
          /\ (FromManifest # NULL /\ FromComponentContainerImages = NULL)
                => (call'.out.err = ErrNoContainerImages /\ call'.out.ret = NULL)
          /\ (/\ FromManifest # NULL
              /\ FromComponentContainerImages # NULL
              /\ FromComponentDownloadedFiles = NULL)
                => (call'.out.err = ErrNoDownloadedFiles /\ call'.out.ret = NULL)
          /\ (NULL \notin {FromManifest, FromComponentContainerImages,
                           FromComponentDownloadedFiles})
                => /\ call'.out.ret # NULL
                   /\ call'.out.ret.FromManifest = FromManifest
                   /\ call'.out.ret.FromComponentContainerImages =
                         FromComponentContainerImages
                   /\ call'.out.ret.FromComponentDownloadedFiles =
                         FromComponentDownloadedFiles
      ]_vars

\* The snapshot was requested with only the downloaded-files inventory unset
\* and the request failed.
C8_Witness ==
    /\ IsCall("GetCachedVersionsOnVHD")
    /\ call.args.FromManifest # NULL
    /\ call.args.FromComponentContainerImages # NULL
    /\ call.args.FromComponentDownloadedFiles = NULL
    /\ call.out.err = ErrNoDownloadedFiles
    /\ call.out.ret = NULL

(* C9: for a non-customized distro, a known cloud and a resolvable SIG     *)
(* environment, GetNodeBootstrapping fails with "can't find image" and     *)
(* returns no artifact exactly when the distro is in neither the legacy    *)
(* catalog nor any SIG family; GetLatestSigImageConfig fails with "can't   *)
(* find SIG image config" exactly when the distro is in no SIG family.     *)
C9_ImageNotFound ==
    /\ ResolvingBootstrap
       => ((call.out.err = ErrNoImage /\ call.out.ret = NULL)
              <=> (/\ call.args.config.Distro \notin
                         DOMAIN AzureCloudToOSImageMap[KnownCloud]
                   /\ FamiliesOf(sigCatalog, call.args.config.Distro) = {}))
    /\ (IsCall("GetLatestSigImageConfig") /\ call.args.region = ResolvableRegion)
       => ((call.out.err = ErrNoSIGImage /\ call.out.ret = NULL)
              <=> FamiliesOf(sigCatalog, call.args.distro) = {})

\* A bootstrap resolution of a distro held by neither the legacy catalog nor
\* any SIG family failed, with an override present for the distro.
C9_Witness ==
    /\ ResolvingBootstrap
    /\ FamiliesOf(sigCatalog, call.args.config.Distro) = {}
    /\ call.args.config.Distro \notin DOMAIN AzureCloudToOSImageMap[KnownCloud]
    /\ DistroString(call.args.config.Distro) \in DOMAIN call.args.overrides
    /\ call.out.err = ErrNoImage
    /\ call.out.ret = NULL

(* C10: after any sequence, and any interleaving of concurrent             *)
(* invocations, of GetNodeBootstrapping, GetLatestSigImageConfig and       *)
(* GetDistroSigImageConfig with any override mappings, the legacy catalog  *)
(* and every SIG family sub-catalog hold their original entries, and a     *)
(* resolution with an empty override mapping returns the original catalog  *)
(* entry with its catalog version.                                         *)
C10_CatalogsNeverMutated ==
    /\ \A f \in Families : \A distro \in DOMAIN sigCatalog[f] :
          sigCatalog[f][distro] = SigEntry(f, distro)
    /\ \A distro \in DOMAIN AzureCloudToOSImageMap[KnownCloud] :
          AzureCloudToOSImageMap[KnownCloud][distro] = LegacyEntry(distro)
    /\ \A t \in Threads :
          (threads[t].pc = "returned" /\ threads[t].args.overrides = <<>>)
          => LET op == threads[t].op
                 args == threads[t].args
                 out == threads[t].out
             IN  /\ (op = "GetLatestSigImageConfig" /\ out.ret # NULL)
                    => \E f \in Families : out.ret = SigEntry(f, args.distro)
                 /\ (/\ op = "GetNodeBootstrapping"
                     /\ out.ret # NULL
                     /\ out.ret.SigImageConfig # NULL)
                    => \E f \in Families :
                          out.ret.SigImageConfig = SigEntry(f, args.config.Distro)
                 /\ (op = "GetDistroSigImageConfig" /\ out.err = NULL)
                    => \A distro \in DOMAIN out.ret :
                          \E f \in Families : out.ret[distro] = SigEntry(f, distro)

\* One thread was returned an overridden version of a distro, another thread
\* resolving the same distro with an empty override mapping was returned the
\* catalog version, and the catalog entry still holds the catalog version.
C10_Witness ==
    \E t1, t2 \in Threads :
        /\ threads[t1].pc = "returned"
        /\ threads[t1].op = "GetLatestSigImageConfig"
        /\ threads[t1].out.ret # NULL
        /\ threads[t1].out.ret.Version = OverrideVersion
        /\ threads[t2].pc = "returned"
        /\ threads[t2].op = "GetNodeBootstrapping"
        /\ threads[t2].args.config.Distro = threads[t1].args.distro
        /\ threads[t2].args.overrides = <<>>
        /\ threads[t2].out.ret # NULL
        /\ threads[t2].out.ret.SigImageConfig # NULL
        /\ threads[t2].out.ret.SigImageConfig.Version = CatalogVersion(Ubuntu)
        /\ sigCatalog.SigUbuntuImageConfig[threads[t1].args.distro].Version =
              CatalogVersion(Ubuntu)

====
